---------------------------- MODULE Spec2Model ----------------------------
(***************************************************************************)
(* Model of src/main.py: a FastAPI service over two SQLite tables, users   *)
(* and repair_requests, accessed through SQLAlchemy ORM sessions.          *)
(*                                                                         *)
(* The two mapped classes name their tables in an attribute "tablename";   *)
(* the model reads them as the tables "users" and "repair_requests" with   *)
(* the columns declared.  The status column's Enum type is build           *)
(* dependent: SQLAlchemy before 1.4 adds a CHECK constraint on the three   *)
(* values, later versions do not and accept any string on write while      *)
(* raising LookupError when a row with another string is read.  enumCheck  *)
(* chooses between the two.                                                *)
(*                                                                         *)
(* Three specifications are given.  Spec serves one request at a time: a   *)
(* handler is one action, which leaves the request and its response in op  *)
(* and resp until get_db closes the session.  SpecConc and SpecUsers serve *)
(* two requests at once, each with its own session (get_db), the handler   *)
(* being split at its database round trips: SpecConc the requests on       *)
(* repair_requests, SpecUsers those on users.                              *)
(***************************************************************************)
EXTENDS Integers, Sequences, FiniteSets, TLC

\* ------------------------------------------------------------------ bounds

\* Most rows the repair_requests table holds in the model.
MaxRequests == 2

\* Most rows the users table holds in the model.
MaxUsers == 2

\* Most rows the repair_requests table holds under concurrent requests.
MaxConcRequests == 1

\* ------------------------------------------------------------------ values

\* Python's None for an Optional[int]: the empty tuple; an int n is <<n>>.
None == <<>>

Some(n) == <<n>>

\* The three values of Column(Enum(...)) status, transliterated to ASCII.
StatusEnum == {"novaya", "v protsesse", "zavershena"}

\* The fields of the request body, in declaration order.
RepairRequestCreate ==
    <<"equipment_type", "model", "problem_description", "client_name",
      "phone_number", "status", "master_id">>

PayloadFields == {RepairRequestCreate[i] : i \in DOMAIN RepairRequestCreate}

TextFields == PayloadFields \ {"status", "master_id"}

\* The fields of the response body: the request body's plus id, request_date.
RepairRequestResponse == PayloadFields \cup {"id", "request_date"}

\* The columns of a repair_requests row.
RepairRequest == PayloadFields \cup {"id", "request_date"}

\* ------------------------------------------------------------------ inputs

\* A request body's text fields are all filled in or all empty.
TextInputs == {"", "filled"}

\* The text a filled-in field carries.
Sample(f) ==
    CASE f = "equipment_type" -> "laptop"
      [] f = "model" -> "X1"
      [] f = "problem_description" -> "screen cracked"
      [] f = "client_name" -> "A. Ivanov"
      [] f = "phone_number" -> "555-0100"

\* Values a request body gives status: empty, two of the enum, one outside.
StatusInputs == {"", "novaya", "zavershena", "slomana"}

\* Values a request body gives master_id.
MasterInputs == {None, Some(0), Some(1)}

MkPayload(t, s, m) ==
    [f \in PayloadFields |->
        IF f = "status" THEN s
        ELSE IF f = "master_id" THEN m
        ELSE IF t = "" THEN "" ELSE Sample(f)]

\* The request bodies tried: a full body with each text, each status and each
\* master_id in turn.
Payloads ==
    {MkPayload(t, "novaya", None) : t \in TextInputs}
        \cup {MkPayload("filled", s, None) : s \in StatusInputs}
        \cup {MkPayload("filled", "novaya", m) : m \in MasterInputs}

\* Path parameter request_id: every id the table can hold, and one beyond.
RequestIds == 1 .. (MaxRequests + 1)

\* Query parameters skip and limit: negative, zero, inside, beyond the table.
SkipInputs == {-1, 0, 1, MaxRequests + 1}

LimitInputs == {-1, 1, 10}

Usernames == {"ann", "bob"}

Passwords == {"pw"}

Roles == {"master"}

UserCreate == [username : Usernames, password : Passwords, role : Roles]

\* The user bodies tried one request at a time: one username, sent again
\* and again.
OneUser == {user \in UserCreate : user.username = "ann"}

\* The two concurrent requests of SpecConc.
Sessions == {"s1", "s2"}

\* The request bodies tried concurrently: the filled-in ones.
ConcPayloads ==
    {p \in Payloads : p.model # "" /\ p.status # "" /\ p.master_id # Some(0)}

\* ------------------------------------------------------------------- state

VARIABLES
    enumCheck,  \* the build: TRUE when the status column carries a CHECK
                \* constraint (SQLAlchemy < 1.4), FALSE when it does not
    users,      \* table users, in rowid order
    requests,   \* table repair_requests, in rowid order
    op,         \* the request last handled: handler and inputs
    resp,       \* the response to it
    fresh,      \* history: id -> body it was created from, for the requests
                \* whose creation returned a record and that no
                \* update_request has addressed since
    sess        \* SpecConc, SpecUsers: each session's place in its handler and
                \* the objects it holds

vars == <<enumCheck, users, requests, op, resp, fresh, sess>>


Idle == [pc |-> "idle"]

Init ==
    /\ enumCheck \in BOOLEAN
    /\ users = <<>>
    /\ requests = <<>>
    /\ op = [name |-> "none"]
    /\ resp = [kind |-> "none"]
    /\ fresh = <<>>
    /\ sess = [s \in Sessions |-> Idle]

\* --------------------------------------------------------------- responses

\* raise HTTPException(status_code=404, detail="Request not found")
NotFound == [kind |-> "error", code |-> 404, detail |-> "Request not found"]

\* An exception no handler catches: the server answers 500.
ServerError(exc) == [kind |-> "error", code |-> 500, detail |-> exc]

\* response_model: the returned object is read field by field; a field the
\* object does not have fails the response's validation.
serialize_response(fields, obj) ==
    IF fields \subseteq DOMAIN obj
    THEN [kind |-> "record", code |-> 200, body |-> [f \in fields |-> obj[f]]]
    ELSE ServerError("ResponseValidationError")

\* ---------------------------------------------------------------- storage

\* An INTEGER PRIMARY KEY takes the largest rowid plus one.
NextId(table) == IF table = <<>> THEN 1 ELSE table[Len(table)].id + 1

\* default=datetime.utcnow: the time of the insert, on a clock that counts
\* the inserts.
utcnow(table) == Some(Len(table) + 1)

\* Mutant of Truthy: "if value is not None" in place of "if value".
TruthyIsNotNone(f, value) == IF f = "master_id" THEN value # None ELSE TRUE

\* value truthiness of setattr(...) if value else None: "" for a str, None
\* and 0 for an Optional[int].
Truthy(f, value) ==
    IF f = "master_id" THEN value # None /\ value # Some(0) ELSE value # ""

\* What the status column accepts on INSERT and UPDATE: any string unless
\* the build created the CHECK constraint.
StatusAccepted(check, s) == (~check) \/ s \in StatusEnum

\* Reading a row into a RepairRequest: the Enum type looks the stored string
\* up among its values and raises LookupError for any other.
Loadable(row) == row.status \in StatusEnum

\* Mutant of UsernameTaken: the column is not unique.
UsernameNeverTaken(table, name) == FALSE

\* unique=True on users.username.
UsernameTaken(table, name) == \E i \in DOMAIN table : table[i].username = name

\* filter(RepairRequest.id == request_id): the position of the row, 0 if none.
Query(table, id) ==
    IF \E i \in DOMAIN table : table[i].id = id
    THEN CHOOSE i \in DOMAIN table : table[i].id = id
    ELSE 0

\* Mutant of NewRequest: the insert leaves master_id out.
NewRequestWithoutMaster(table, payload) ==
    [f \in RepairRequest |->
        IF f = "id" THEN NextId(table)
        ELSE IF f = "request_date" THEN utcnow(table)
        ELSE IF f = "master_id" THEN None
        ELSE payload[f]]

\* RepairRequest(**request.dict()) as inserted: the body's fields, the next
\* id and the default request_date.
NewRequest(table, payload) ==
    [f \in RepairRequest |->
        IF f = "id" THEN NextId(table)
        ELSE IF f = "request_date" THEN utcnow(table)
        ELSE payload[f]]

\* for var, value in request.dict().items():
\*     setattr(db_request, var, value) if value else None
Setattr(row, payload) ==
    [f \in DOMAIN row |->
        IF f \in PayloadFields /\ Truthy(f, payload[f]) THEN payload[f] ELSE row[f]]

\* Mutant of Dirty: the UPDATE writes every column of the object.
DirtyEveryColumn(loaded, obj) == DOMAIN obj

\* The columns the session writes at commit: the attributes whose value
\* differs from the value loaded.
Dirty(loaded, obj) == {f \in DOMAIN obj : obj[f] # loaded[f]}

\* Mutant of Flush: the UPDATE has no WHERE clause.
FlushEveryRow(table, loaded, obj) ==
    [i \in DOMAIN table |->
        [f \in DOMAIN table[i] |->
            IF f \in Dirty(loaded, obj) THEN obj[f] ELSE table[i][f]]]

\* db.commit() of a changed object: UPDATE repair_requests SET the dirty
\* columns WHERE id = the object's id.
Flush(table, loaded, obj) ==
    [i \in DOMAIN table |->
        IF table[i].id = obj.id
        THEN [f \in DOMAIN table[i] |->
                IF f \in Dirty(loaded, obj) THEN obj[f] ELSE table[i][f]]
        ELSE table[i]]

\* Whether that UPDATE passes the status column's constraint.
FlushAccepted(check, loaded, obj) ==
    "status" \in Dirty(loaded, obj) => StatusAccepted(check, obj.status)

\* db.refresh(db_request) and the return: the row is read again and
\* serialised.
Refreshed(table, id) ==
    IF Loadable(table[Query(table, id)])
    THEN serialize_response(RepairRequestResponse, table[Query(table, id)])
    ELSE ServerError("LookupError")

Min(a, b) == IF a < b THEN a ELSE b

\* OFFSET skip: a negative offset is no offset.
Offset(table, skip) ==
    SubSeq(table, (IF skip < 0 THEN 0 ELSE skip) + 1, Len(table))

\* Mutant of Limit: one row too many.
LimitOffByOne(table, limit) ==
    IF limit < 0 THEN table ELSE SubSeq(table, 1, Min(limit + 1, Len(table)))

\* LIMIT limit: a negative limit is no limit.
Limit(table, limit) ==
    IF limit < 0 THEN table ELSE SubSeq(table, 1, Min(limit, Len(table)))

\* pwd_context.hash(password): a salted bcrypt hash.
hash_password(password) == <<"bcrypt", "salt", password>>

\* history: the requests that keep the fields they were created with.
Forget(id) == [i \in (DOMAIN fresh) \ {id} |-> fresh[i]]

\* ---------------------------------------------------------------- handlers

\* POST /users/
create_user(user) ==
    /\ op.name = "none"
    /\ Len(users) < MaxUsers \/ UsernameTaken(users, user.username)
    /\ op' = [name |-> "create_user", user |-> user]
    /\ IF UsernameTaken(users, user.username)
       THEN /\ users' = users
            /\ resp' = ServerError("IntegrityError")
       ELSE LET db_user == [id |-> NextId(users),
                            username |-> user.username,
                            hashed_password |-> hash_password(user.password),
                            role |-> user.role]
            IN /\ users' = Append(users, db_user)
               /\ resp' = serialize_response({"username", "password", "role"}, db_user)
    /\ UNCHANGED <<enumCheck, requests, fresh, sess>>

\* POST /requests/
create_request(request) ==
    /\ op.name = "none"
    /\ Len(requests) < MaxRequests \/ ~StatusAccepted(enumCheck, request.status)
    /\ op' = [name |-> "create_request", request |-> request]
    /\ IF ~StatusAccepted(enumCheck, request.status)
       THEN /\ requests' = requests
            /\ resp' = ServerError("IntegrityError")
            /\ fresh' = fresh
       ELSE LET db_request == NewRequest(requests, request)
            IN /\ requests' = Append(requests, db_request)
               /\ resp' = Refreshed(requests', db_request.id)
               /\ fresh' = IF resp'.kind = "record"
                           THEN (resp'.body.id :> request) @@ fresh
                           ELSE fresh
    /\ UNCHANGED <<enumCheck, users, sess>>

\* GET /requests/
read_requests(skip, limit) ==
    LET page == Limit(Offset(requests, skip), limit)
    IN /\ op.name = "none"
       /\ op' = [name |-> "read_requests", skip |-> skip, limit |-> limit]
       /\ resp' = IF \A i \in DOMAIN page : Loadable(page[i])
                  THEN [kind |-> "list", code |-> 200,
                        body |-> [i \in DOMAIN page |->
                            serialize_response(RepairRequestResponse, page[i]).body]]
                  ELSE ServerError("LookupError")
       /\ UNCHANGED <<enumCheck, users, requests, fresh, sess>>

\* Mutant of read_request: no "if db_request is None" before the return.
read_request_unchecked(request_id) ==
    /\ op.name = "none"
    /\ op' = [name |-> "read_request", request_id |-> request_id]
    /\ resp' = IF Query(requests, request_id) = 0
               THEN ServerError("ResponseValidationError")
               ELSE Refreshed(requests, request_id)
    /\ UNCHANGED <<enumCheck, users, requests, fresh, sess>>

\* GET /requests/{request_id}
read_request(request_id) ==
    /\ op.name = "none"
    /\ op' = [name |-> "read_request", request_id |-> request_id]
    /\ resp' = IF Query(requests, request_id) = 0 THEN NotFound
               ELSE Refreshed(requests, request_id)
    /\ UNCHANGED <<enumCheck, users, requests, fresh, sess>>

\* PUT /requests/{request_id}
update_request(request_id, request) ==
    /\ op.name = "none"
    /\ op' = [name |-> "update_request", request_id |-> request_id,
              request |-> request]
    /\ fresh' = Forget(request_id)
    /\ IF Query(requests, request_id) = 0
       THEN /\ resp' = NotFound
            /\ requests' = requests
       ELSE LET loaded == requests[Query(requests, request_id)]
                db_request == Setattr(loaded, request)
            IN IF ~Loadable(loaded)
               THEN /\ resp' = ServerError("LookupError")
                    /\ requests' = requests
               ELSE IF ~FlushAccepted(enumCheck, loaded, db_request)
               THEN /\ resp' = ServerError("IntegrityError")
                    /\ requests' = requests
               ELSE /\ requests' = Flush(requests, loaded, db_request)
                    /\ resp' = Refreshed(requests', request_id)
    /\ UNCHANGED <<enumCheck, users, sess>>

\* Mutant of get_statistics: the count has no status filter.
get_statistics_unfiltered ==
    /\ op.name = "none"
    /\ op' = [name |-> "get_statistics"]
    /\ resp' = [kind |-> "statistics", code |-> 200,
                completed_requests_count |-> Len(requests),
                average_time |-> "Ozhidanie realizatsii"]
    /\ UNCHANGED <<enumCheck, users, requests, fresh, sess>>

\* GET /statistics/
get_statistics ==
    /\ op.name = "none"
    /\ op' = [name |-> "get_statistics"]
    /\ resp' = [kind |-> "statistics", code |-> 200,
                completed_requests_count |->
                    Cardinality({i \in DOMAIN requests :
                                    requests[i].status = "zavershena"}),
                average_time |-> "Ozhidanie realizatsii"]
    /\ UNCHANGED <<enumCheck, users, requests, fresh, sess>>

\* get_db's finally: the response is sent and the session closed; the
\* server takes the next request.
get_db_close ==
    /\ op.name # "none"
    /\ op' = [name |-> "none"]
    /\ resp' = [kind |-> "none"]
    /\ UNCHANGED <<enumCheck, users, requests, fresh, sess>>

Next ==
    \/ \E user \in OneUser : create_user(user)
    \/ \E request \in Payloads : create_request(request)
    \/ \E skip \in SkipInputs, limit \in LimitInputs : read_requests(skip, limit)
    \/ \E request_id \in RequestIds : read_request(request_id)
    \/ \E request_id \in RequestIds, request \in Payloads :
            update_request(request_id, request)
    \/ get_statistics
    \/ get_db_close

Spec == Init /\ [][Next]_vars


\* ------------------------------------------------------ concurrent requests

\* update_request, to the end of its setattr loop: the row is read into the
\* session and the truthy values set on the object.
update_request_query(s, request_id, request) ==
    /\ sess[s].pc = "idle"
    /\ sess' = [sess EXCEPT ![s] =
        IF Query(requests, request_id) = 0
        THEN [pc |-> "done", handler |-> "update_request", resp |-> NotFound]
        ELSE IF ~Loadable(requests[Query(requests, request_id)])
        THEN [pc |-> "done", handler |-> "update_request",
              resp |-> ServerError("LookupError")]
        ELSE [pc |-> "loaded", handler |-> "update_request",
              request_id |-> request_id, request |-> request,
              loaded |-> requests[Query(requests, request_id)],
              db_request |-> Setattr(requests[Query(requests, request_id)], request)]]
    /\ UNCHANGED <<enumCheck, users, requests, op, resp, fresh>>

\* update_request's db.commit(): the UPDATE of the dirty columns.
update_request_commit(s) ==
    /\ sess[s].pc = "loaded"
    /\ IF FlushAccepted(enumCheck, sess[s].loaded, sess[s].db_request)
       THEN /\ requests' = Flush(requests, sess[s].loaded, sess[s].db_request)
            /\ sess' = [sess EXCEPT ![s].pc = "committed"]
       ELSE /\ requests' = requests
            /\ sess' = [sess EXCEPT ![s] =
                    [pc |-> "done", handler |-> "update_request",
                     resp |-> ServerError("IntegrityError")]]
    /\ UNCHANGED <<enumCheck, users, op, resp, fresh>>

\* update_request's db.refresh(db_request) and return.
update_request_refresh(s) ==
    /\ sess[s].pc = "committed"
    /\ sess[s].handler = "update_request"
    /\ sess' = [sess EXCEPT ![s] =
            [pc |-> "done", handler |-> "update_request",
             resp |-> Refreshed(requests, sess[s].request_id)]]
    /\ UNCHANGED <<enumCheck, users, requests, op, resp, fresh>>

\* create_user, to db.add(db_user): the object is built and pending.
create_user_add(s, user) ==
    /\ sess[s].pc = "idle"
    /\ sess' = [sess EXCEPT ![s] =
            [pc |-> "added", handler |-> "create_user", user |-> user,
             db_user |-> [username |-> user.username,
                          hashed_password |-> hash_password(user.password),
                          role |-> user.role]]]
    /\ UNCHANGED <<enumCheck, users, requests, op, resp, fresh>>

\* create_user's db.commit(): the INSERT.
create_user_commit(s) ==
    /\ sess[s].pc = "added"
    /\ Len(users) < MaxUsers \/ UsernameTaken(users, sess[s].user.username)
    /\ IF UsernameTaken(users, sess[s].user.username)
       THEN /\ users' = users
            /\ sess' = [sess EXCEPT ![s] =
                    [pc |-> "done", handler |-> "create_user",
                     user |-> sess[s].user,
                     resp |-> ServerError("IntegrityError")]]
       ELSE /\ users' = Append(users,
                    [id |-> NextId(users),
                     username |-> sess[s].db_user.username,
                     hashed_password |-> sess[s].db_user.hashed_password,
                     role |-> sess[s].db_user.role])
            /\ sess' = [sess EXCEPT ![s].pc = "committed"]
    /\ UNCHANGED <<enumCheck, requests, op, resp, fresh>>

\* create_user's db.refresh(db_user) and return.
create_user_refresh(s) ==
    /\ sess[s].pc = "committed"
    /\ sess[s].handler = "create_user"
    /\ sess' = [sess EXCEPT ![s] =
            [pc |-> "done", handler |-> "create_user", user |-> sess[s].user,
             resp |-> serialize_response({"username", "password", "role"},
                        CHOOSE u \in {users[i] : i \in DOMAIN users} :
                            u.username = sess[s].user.username)]]
    /\ UNCHANGED <<enumCheck, users, requests, op, resp, fresh>>

\* create_request by one of the concurrent requests, its insert, commit and
\* refresh in one step.
create_request_in(s, request) ==
    /\ sess[s].pc = "idle"
    /\ Len(requests) < MaxConcRequests
            \/ ~StatusAccepted(enumCheck, request.status)
    /\ IF ~StatusAccepted(enumCheck, request.status)
       THEN /\ requests' = requests
            /\ sess' = [sess EXCEPT ![s] =
                    [pc |-> "done", handler |-> "create_request",
                     resp |-> ServerError("IntegrityError")]]
       ELSE /\ requests' = Append(requests, NewRequest(requests, request))
            /\ sess' = [sess EXCEPT ![s] =
                    [pc |-> "done", handler |-> "create_request",
                     resp |-> Refreshed(requests', NextId(requests))]]
    /\ UNCHANGED <<enumCheck, users, op, resp, fresh>>

\* get_db's finally for a concurrent request.
db_close(s) ==
    /\ sess[s].pc = "done"
    /\ sess' = [sess EXCEPT ![s] = Idle]
    /\ UNCHANGED <<enumCheck, users, requests, op, resp, fresh>>

NextConc ==
    \E s \in Sessions :
        \/ \E request_id \in 1 .. (MaxConcRequests + 1), request \in ConcPayloads :
                update_request_query(s, request_id, request)
        \/ update_request_commit(s)
        \/ update_request_refresh(s)
        \/ \E request \in ConcPayloads : create_request_in(s, request)
        \/ db_close(s)

SpecConc == Init /\ [][NextConc]_vars

NextUsers ==
    \E s \in Sessions :
        \/ \E user \in UserCreate : create_user_add(s, user)
        \/ create_user_commit(s)
        \/ create_user_refresh(s)
        \/ db_close(s)

SpecUsers == Init /\ [][NextUsers]_vars

\* ------------------------------------------------- claims checked under Spec

\* C1: a request created with a returned id and then fetched by that id, with
\* any operations on other ids in between, comes back with that id, a
\* populated request_date and every other field as supplied at creation.
C1_CreateThenRead ==
    (op.name = "read_request" /\ op.request_id \in DOMAIN fresh) =>
        /\ resp.kind = "record"
        /\ resp.body.id = op.request_id
        /\ resp.body.request_date # None
        /\ \A f \in PayloadFields : resp.body[f] = fresh[op.request_id][f]

\* Request 1 is fetched unchanged after request 2 was created and updated.
C1_Witness ==
    /\ op.name = "read_request"
    /\ op.request_id = 1
    /\ 1 \in DOMAIN fresh
    /\ Len(requests) >= 2
    /\ requests[2].master_id = Some(1)
    /\ requests[2].status = "zavershena"

\* What an update is expected to leave in field f: the supplied value when it
\* is truthy, the stored one when it is "", None or 0.
Expected(f, supplied, stored) ==
    IF f = "master_id"
    THEN (IF supplied \in {None, Some(0)} THEN stored ELSE supplied)
    ELSE (IF supplied = "" THEN stored ELSE supplied)

\* C2 as stated: update_request on an existing id leaves in each field the
\* supplied value if truthy and the stored value otherwise, and returns the
\* stored record.
C2_AsStated ==
    [][(op'.name = "update_request" /\ Query(requests, op'.request_id) # 0) =>
        LET i == Query(requests, op'.request_id)
        IN /\ \A f \in PayloadFields :
                requests'[i][f] = Expected(f, op'.request[f], requests[i][f])
           /\ resp'.kind = "record"
           /\ resp'.body = requests'[i]]_vars

\* C2 amended: that holds when the stored status is one of the three values
\* and the supplied status is empty or one of the three values; with any
\* other stored or supplied status the update returns a server error and no
\* record.
C2_UpdateTruthyOnly ==
    [][(op'.name = "update_request" /\ Query(requests, op'.request_id) # 0) =>
        LET i == Query(requests, op'.request_id)
        IN IF requests[i].status \in StatusEnum
                /\ op'.request.status \in StatusEnum \cup {""}
           THEN /\ \A f \in PayloadFields :
                     requests'[i][f] = Expected(f, op'.request[f], requests[i][f])
                /\ resp'.kind = "record"
                /\ resp'.body = requests'[i]
           ELSE resp'.kind = "error" /\ resp'.code = 500]_vars

\* An update with empty text and no master has returned a record that keeps
\* the stored text and the stored master.
C2_Witness ==
    /\ op.name = "update_request"
    /\ resp.kind = "record"
    /\ op.request.problem_description = ""
    /\ resp.body.problem_description = "screen cracked"
    /\ op.request.master_id = None
    /\ resp.body.master_id = Some(1)
    /\ resp.body.status = op.request.status

\* C3: read_request and update_request answer 404 exactly when no stored
\* request has the id, and then leave the stored requests unchanged.
C3_NotFound ==
    [][(op'.name \in {"read_request", "update_request"}) =>
        IF \E i \in DOMAIN requests : requests[i].id = op'.request_id
        THEN ~(resp'.kind = "error" /\ resp'.code = 404)
        ELSE /\ resp'.kind = "error"
             /\ resp'.code = 404
             /\ requests' = requests]_vars

\* An update of an id beyond the stored requests was answered 404.
C3_Witness ==
    /\ op.name = "update_request"
    /\ resp.kind = "error"
    /\ resp.code = 404
    /\ Len(requests) >= 1

RECURSIVE CountCompleted(_)
CountCompleted(rows) ==
    IF rows = <<>> THEN 0
    ELSE (IF Head(rows).status = "zavershena" THEN 1 ELSE 0)
            + CountCompleted(Tail(rows))

\* C4: get_statistics returns the number of stored requests whose status is
\* the completed value and the fixed placeholder, and changes no stored
\* state.
C4_Statistics ==
    [][(op'.name = "get_statistics") =>
        /\ resp'.completed_requests_count = CountCompleted(requests)
        /\ resp'.average_time = "Ozhidanie realizatsii"
        /\ requests' = requests
        /\ users' = users]_vars

\* Statistics of two requests, one of them completed by an update.
C4_Witness ==
    /\ op.name = "get_statistics"
    /\ resp.completed_requests_count = 1
    /\ Len(requests) = 2
    /\ requests[1].status = "zavershena"
    /\ requests[1].master_id = Some(1)

\* The rows of a page, in insertion order.
PageRows(first, last) ==
    [k \in 1 .. (IF last < first THEN 0 ELSE last - first + 1) |->
        requests[first + k - 1]]

\* C5 as stated: for every skip and limit read_requests raises no error and
\* returns, in insertion order, the requests after the first skip, exactly
\* min(limit, max(0, N - skip)) of them.
C5_AsStated ==
    (op.name = "read_requests") =>
        LET N == Len(requests)
            rest == IF N - op.skip > 0 THEN N - op.skip ELSE 0
            count == IF op.limit < rest THEN op.limit ELSE rest
        IN /\ resp.kind = "list"
           /\ Len(resp.body) = count
           /\ resp.body = PageRows(op.skip + 1, op.skip + count)

\* C5 amended: read_requests returns, in insertion order, the requests after
\* the first max(0, skip), at most limit of them when limit >= 0 and all of
\* them when limit is negative; it raises an error exactly when one of those
\* rows holds a status outside the three values.
C5_Page ==
    (op.name = "read_requests") =>
        LET N == Len(requests)
            first == (IF op.skip < 0 THEN 0 ELSE op.skip) + 1
            last == IF op.limit < 0 \/ first + op.limit - 1 > N
                    THEN N ELSE first + op.limit - 1
        IN IF \A i \in first .. last : requests[i].status \in StatusEnum
           THEN /\ resp.kind = "list"
                /\ resp.body = PageRows(first, last)
           ELSE resp.kind = "error" /\ resp.code = 500

\* A negative limit returned every row after the first.
C5_Witness ==
    /\ op.name = "read_requests"
    /\ op.skip = 1
    /\ op.limit = -1
    /\ Len(requests) = 2
    /\ resp.kind = "list"
    /\ Len(resp.body) = 1
    /\ resp.body[1].id = 2

\* C7 as stated: the status of every stored request is one of the three
\* values.
C7_StatusInEnum == \A i \in DOMAIN requests : requests[i].status \in StatusEnum

\* C8 as stated: a create_user that stores the user returns username,
\* password and role, the password being the plaintext supplied.
C8_PlaintextEcho ==
    (op.name = "create_user"
        /\ ~(resp.kind = "error" /\ resp.detail = "IntegrityError")) =>
        /\ resp.kind = "record"
        /\ resp.body = [username |-> op.user.username,
                        password |-> op.user.password,
                        role |-> op.user.role]

Ids(table) == {table[i].id : i \in DOMAIN table}

\* C10: update_request changes no id, no request_date, no other request and
\* no table's size; over every step the stored ids only grow and stay unique.
C10_Frame ==
    [][/\ (op'.name = "update_request") =>
            /\ Len(requests') = Len(requests)
            /\ users' = users
            /\ \A i \in DOMAIN requests :
                /\ requests'[i].id = requests[i].id
                /\ requests'[i].request_date = requests[i].request_date
                /\ (requests[i].id # op'.request_id) => requests'[i] = requests[i]
       /\ Ids(requests) \subseteq Ids(requests')
       /\ Cardinality(Ids(requests')) = Len(requests')]_vars

\* The second of two requests was given a master; the first has none.
C10_Witness ==
    /\ op.name = "update_request"
    /\ op.request_id = 2
    /\ resp.kind = "record"
    /\ resp.body.master_id = Some(1)
    /\ Len(requests) = 2
    /\ requests[1].master_id = None
    /\ Len(users) = 1

\* -------------------------------------------- claims checked under SpecUsers

\* C6: no two stored users share a username, and a create_user whose
\* username is already stored when it commits fails with an error and leaves
\* the stored users unchanged, also when two create_user calls interleave.
C6_UniqueUsernames ==
    [][/\ \A i, j \in DOMAIN users' :
            i # j => users'[i].username # users'[j].username
       /\ \A s \in Sessions :
            (/\ sess[s].pc = "added"
             /\ sess'[s].pc # "added"
             /\ \E i \in DOMAIN users : users[i].username = sess[s].user.username) =>
                /\ users' = users
                /\ sess'[s].pc = "done"
                /\ sess'[s].resp.kind = "error"]_vars

\* One create_user failed on the username another, still in its handler,
\* had just committed.
C6_Witness ==
    \E s, t \in Sessions :
        /\ s # t
        /\ sess[s].pc = "done"
        /\ sess[s].handler = "create_user"
        /\ sess[s].resp.kind = "error"
        /\ sess[s].resp.detail = "IntegrityError"
        /\ sess[t].pc = "committed"
        /\ sess[t].user.username = sess[s].user.username
        /\ Len(users) = 1

\* --------------------------------------------- claims checked under SpecConc

\* C9 as stated: the update that commits last leaves the row that applying
\* it to the row stored at its commit gives: its value in every field for
\* which it supplied a truthy value.
C9_AsStated ==
    [][\A s \in Sessions :
        (sess[s].pc = "loaded" /\ sess'[s].pc = "committed") =>
            LET i == Query(requests, sess[s].request_id)
            IN \A f \in PayloadFields :
                requests'[i][f] =
                    Expected(f, sess[s].request[f], requests[i][f])]_vars

\* C9 amended: the update that commits last overwrites a field only where
\* its truthy value differs from the value it had read; every other field
\* keeps the value stored when it commits, the other update's included.
C9_LastChangeWins ==
    [][\A s \in Sessions :
        (sess[s].pc = "loaded" /\ sess'[s].pc = "committed") =>
            LET i == Query(requests, sess[s].request_id)
            IN \A f \in PayloadFields :
                LET want == Expected(f, sess[s].request[f], sess[s].loaded[f])
                IN requests'[i][f] =
                    IF want # sess[s].loaded[f] THEN want ELSE requests[i][f]]_vars

\* Both updates read status "novaya"; one set "zavershena", committed and
\* returned; the other, supplying "novaya" and a master, committed last: its
\* master is stored, its status is not.
C9_Witness ==
    \E s, t \in Sessions :
        /\ s # t
        /\ sess[s].pc = "committed"
        /\ sess[s].loaded.status = "novaya"
        /\ sess[s].loaded.master_id = None
        /\ sess[s].request.status = "novaya"
        /\ sess[s].request.master_id = Some(1)
        /\ sess[t].pc = "done"
        /\ sess[t].handler = "update_request"
        /\ sess[t].resp.kind = "record"
        /\ sess[t].resp.body.id = sess[s].request_id
        /\ sess[t].resp.body.status = "zavershena"
        /\ sess[t].resp.body.master_id = None
        /\ requests[Query(requests, sess[s].request_id)].status = "zavershena"
        /\ requests[Query(requests, sess[s].request_id)].master_id = Some(1)

====
